---- MODULE Spec2Model ----
(***************************************************************************)
(* Model of the fund-portfolio analysis script (src/test_fund_app.py):     *)
(* calculate_metrics and calculate_portfolio as the code computes them.    *)
(*                                                                         *)
(* Numbers.  The code works on IEEE doubles (numpy float64).  The model    *)
(* computes with exact rationals extended by NaN, +inf and -inf, which is  *)
(* what the code's divisions by zero and empty statistics produce (numpy   *)
(* warns, it does not raise).  A value is a record:                        *)
(*   [k |-> "float", n |-> numerator, d |-> denominator]   d > 0, reduced  *)
(*   d = 0: n = 0 is NaN, n = 1 is +inf, n = -1 is -inf                    *)
(* Irrational results (a fractional power, a square root) are kept as      *)
(* terms [k |-> "pow" | "sqrt" | "sub" | "mul" | "div", ...] and are       *)
(* reduced only where the double result is exact (1 ** y = 1, sqrt 0 = 0). *)
(* Rounding error of the doubles is not modelled.                          *)
(***************************************************************************)
EXTENDS Integers, Sequences, FiniteSets, TLC

VARIABLES prices, risk_free, pc, raised, locals, metrics,
          df, weights, portfolio,
          seen, selected_funds, loop_i, remaining,
          requirements, sessions

(* the state the calls of calculate_metrics and calculate_portfolio do not  *)
(* touch: the record of earlier calls, the sidebar's weight loop            *)
(* (loop_i is its variable i) and the requirement tracker (src/app.py)      *)
rest == <<seen, selected_funds, loop_i, remaining, requirements, sessions>>

vars == <<prices, risk_free, pc, raised, locals, metrics, df, weights, portfolio,
          seen, selected_funds, loop_i, remaining, requirements, sessions>>

(* ---------------------------- bounds ----------------------------------- *)
MaxLen == 4

MaxDays == 3

(* the most funds selected in the sidebar *)
MaxFunds == 3

(* browser sessions open on the researcher page, and rows of the           *)
(* requirements table                                                      *)
MaxSessions == 2

MaxRequirements == 1

(* Prices of the funds of a portfolio, in hundredths: 1.0, 2.0 *)
FundPriceValues == {100, 200}

(* Weights of the funds of a portfolio, in hundredths *)
WeightValues == {0, 25, 50, 75, 100}

(* Prices the inputs are drawn from, in hundredths: -1.0, 0, 0.9, 1.0, 1.2 *)
PriceValues == {-100, 0, 90, 100, 120}

(* The series [1.0, 1.1, 1.21], in hundredths, also given as an input      *)
ExampleSeries == {<<100, 110, 121>>}

(* Annual risk-free rates the inputs are drawn from, in thousandths        *)
RiskFreeValues == {0, 25}

(* ------------------------- float arithmetic ---------------------------- *)
Abs(x) == IF x < 0 THEN -x ELSE x

RECURSIVE GCD(_, _)
GCD(a, b) == IF b = 0 THEN a ELSE GCD(b, a % b)

NaN == [k |-> "float", n |-> 0, d |-> 0]
PosInf == [k |-> "float", n |-> 1, d |-> 0]
NegInf == [k |-> "float", n |-> -1, d |-> 0]

(* n/d for d # 0, reduced, the sign carried by the numerator *)
Q(n, d) ==
    LET g == GCD(Abs(n), Abs(d))
        s == IF d < 0 THEN -1 ELSE 1
    IN [k |-> "float", n |-> (s * n) \div g, d |-> (s * d) \div g]

Zero == Q(0, 1)
One == Q(1, 1)

IsFloat(x) == x.k = "float"
IsNaN(x) == IsFloat(x) /\ x.d = 0 /\ x.n = 0
IsInf(x) == IsFloat(x) /\ x.d = 0 /\ x.n # 0
IsFinite(x) == IsFloat(x) /\ x.d # 0
Sign(x) == IF x.n > 0 THEN 1 ELSE IF x.n < 0 THEN -1 ELSE 0
Inf(s) == IF s > 0 THEN PosInf ELSE NegInf

FNeg(a) == [k |-> "float", n |-> -a.n, d |-> a.d]

FAdd(a, b) ==
    IF IsNaN(a) \/ IsNaN(b) THEN NaN
    ELSE IF IsInf(a) /\ IsInf(b) THEN (IF a.n = b.n THEN a ELSE NaN)
    ELSE IF IsInf(a) THEN a
    ELSE IF IsInf(b) THEN b
    ELSE LET m == (a.d \div GCD(a.d, b.d)) * b.d
         IN Q(a.n * (m \div a.d) + b.n * (m \div b.d), m)

FSub(a, b) == FAdd(a, FNeg(b))

FMul(a, b) ==
    IF IsNaN(a) \/ IsNaN(b) THEN NaN
    ELSE IF IsInf(a) \/ IsInf(b)
         THEN (IF Sign(a) * Sign(b) = 0 THEN NaN ELSE Inf(Sign(a) * Sign(b)))
    ELSE LET g == GCD(Abs(a.n), b.d)
             h == GCD(Abs(b.n), a.d)
         IN Q((a.n \div g) * (b.n \div h), (a.d \div h) * (b.d \div g))

(* numpy division: x/0 is +-inf, 0/0 and inf/inf are NaN; a zero is +0.0 *)
FDiv(a, b) ==
    IF IsNaN(a) \/ IsNaN(b) THEN NaN
    ELSE IF IsInf(b) THEN (IF IsInf(a) THEN NaN ELSE Zero)
    ELSE IF b.n = 0 THEN (IF a.n = 0 THEN NaN ELSE Inf(Sign(a)))
    ELSE IF IsInf(a) THEN Inf(Sign(a) * Sign(b))
    ELSE FMul(a, Q(b.d, b.n))

(* a < b on doubles: every comparison with NaN is false *)
FLt(a, b) ==
    IF IsNaN(a) \/ IsNaN(b) THEN FALSE
    ELSE IF IsInf(a) THEN a.n < 0 /\ b # a
    ELSE IF IsInf(b) THEN b.n > 0
    ELSE a.n * b.d < b.n * a.d

FGt(a, b) == FLt(b, a)

(* a != b on doubles: true when either side is NaN *)
FNe(a, b) == IsNaN(a) \/ IsNaN(b) \/ a # b

FAbs(a) == [k |-> "float", n |-> Abs(a.n), d |-> a.d]

(* ------------------- terms for inexact operations ---------------------- *)
(* x ** e (numpy power) for the positive exponents e = 252/N:             *)
(* 1 ** e = 1, 0 ** e = 0, inf ** e = inf, (-inf) ** e is -inf for an odd  *)
(* integer e and inf otherwise, a negative base with a fractional e gives  *)
(* NaN; every other power is kept as a term                                *)
Pow(x, e) ==
    IF IsNaN(x) THEN NaN
    ELSE IF x = One THEN One
    ELSE IF x = Zero THEN Zero
    ELSE IF x = PosInf THEN PosInf
    ELSE IF x = NegInf THEN (IF e.d = 1 /\ e.n % 2 = 1 THEN NegInf ELSE PosInf)
    ELSE IF Sign(x) < 0 /\ e.d # 1 THEN NaN
    ELSE [k |-> "pow", base |-> x, exp |-> e]

(* np.sqrt: exact at 0; the square root of a positive number is a term *)
Sqrt(x) ==
    IF IsNaN(x) \/ Sign(x) < 0 THEN NaN
    ELSE IF x = Zero THEN Zero
    ELSE IF x = PosInf THEN PosInf
    ELSE [k |-> "sqrt", of |-> x]

(* a term built by Pow or Sqrt is finite and not NaN; a square root or a   *)
(* product of square roots is > 0                                          *)
Positive(x) ==
    IF IsFloat(x) THEN FGt(x, Zero)
    ELSE IF x.k = "sqrt" THEN TRUE
    ELSE IF x.k = "mul" THEN x.a.k = "sqrt" /\ x.b.k = "sqrt"
    ELSE FALSE

Sub(a, b) ==
    IF IsFloat(a) /\ IsFloat(b) THEN FSub(a, b)
    ELSE IF IsNaN(a) \/ IsNaN(b) THEN NaN
    ELSE [k |-> "sub", a |-> a, b |-> b]

Mul(a, b) ==
    IF IsFloat(a) /\ IsFloat(b) THEN FMul(a, b)
    ELSE IF IsNaN(a) \/ IsNaN(b) THEN NaN
    ELSE IF a = Zero \/ b = Zero THEN Zero
    ELSE [k |-> "mul", a |-> a, b |-> b]

Div(a, b) ==
    IF IsFloat(a) /\ IsFloat(b) THEN FDiv(a, b)
    ELSE IF IsNaN(a) \/ IsNaN(b) THEN NaN
    ELSE IF IsInf(b) THEN Zero
    ELSE [k |-> "div", a |-> a, b |-> b]

(* ----------------------------- pandas ---------------------------------- *)
(* Series.pct_change(): NaN first, then s[i]/s[i-1] - 1 *)
PctChange(s) ==
    [i \in 1..Len(s) |-> IF i = 1 THEN NaN ELSE FSub(FDiv(s[i], s[i - 1]), One)]

NotNaN(x) == ~IsNaN(x)

(* Series.dropna() *)
DropNa(s) == SelectSeq(s, NotNaN)

RECURSIVE Sum(_)
Sum(s) == IF s = <<>> THEN Zero ELSE FAdd(Sum(SubSeq(s, 1, Len(s) - 1)), s[Len(s)])

(* Mutant of Std: the population deviation (ddof = 0) *)
StdPopulation(s) ==
    LET v == DropNa(s)
        n == Len(v)
        avg == FDiv(Sum(v), Q(n, 1))
        sq == [i \in 1..n |-> FMul(FSub(avg, v[i]), FSub(avg, v[i]))]
    IN IF n <= 0 THEN NaN ELSE Sqrt(FDiv(Sum(sq), Q(n, 1)))

(* Series.std(): skips NaN, ddof = 1; NaN when fewer than 2 values remain *)
Std(s) ==
    LET v == DropNa(s)
        n == Len(v)
        avg == FDiv(Sum(v), Q(n, 1))
        sq == [i \in 1..n |-> FMul(FSub(avg, v[i]), FSub(avg, v[i]))]
    IN IF n - 1 <= 0 THEN NaN ELSE Sqrt(FDiv(Sum(sq), Q(n - 1, 1)))

FMax(a, b) == IF FGt(b, a) THEN b ELSE a

(* Mutant of CumMax: the maximum of the whole series at every index *)
RECURSIVE WholeMaxAt(_, _)
WholeMaxAt(s, i) == IF i = 1 THEN s[1] ELSE FMax(WholeMaxAt(s, i - 1), s[i])

CumMaxWhole(s) == [i \in 1..Len(s) |-> WholeMaxAt(s, Len(s))]

(* Series.cummax() of a series without NaN *)
RECURSIVE CumMaxAt(_, _)
CumMaxAt(s, i) == IF i = 1 THEN s[1] ELSE FMax(CumMaxAt(s, i - 1), s[i])

CumMax(s) == [i \in 1..Len(s) |-> CumMaxAt(s, i)]

(* Series.min(): skips NaN; NaN when nothing remains *)
SeriesMin(s) ==
    LET v == DropNa(s)
    IN IF v = <<>> THEN NaN
       ELSE LET i == CHOOSE i \in 1..Len(v) : \A j \in 1..Len(v) : ~FLt(v[j], v[i])
            IN v[i]

(* Mutant of CountPositive: counts returns >= 0 *)
CountNonNegative(s) == Cardinality({i \in 1..Len(s) : ~FLt(s[i], Zero)})

(* (returns > 0).sum() *)
CountPositive(s) == Cardinality({i \in 1..Len(s) : FGt(s[i], Zero)})

(* --------------------------- formatting -------------------------------- *)
(* round half to even of a finite value >= 0, to an integer *)
RoundHalfEven(x) ==
    LET q == x.n \div x.d
        r == x.n % x.d
    IN IF 2 * r < x.d THEN q
       ELSE IF 2 * r > x.d THEN q + 1
       ELSE IF q % 2 = 0 THEN q ELSE q + 1

(* the number a fixed-point text with two decimals shows for x *)
Round2(x) ==
    IF ~IsFloat(x) THEN [k |-> "round2", of |-> x]
    ELSE IF ~IsFinite(x) THEN FAbs(x)
    ELSE Q(RoundHalfEven(FMul(FAbs(x), Q(100, 1))), 100)

Text(style, x, y) ==
    [k |-> "str", style |-> style, neg |-> IsFloat(x) /\ Sign(x) < 0, shown |-> Round2(y)]

(* Mutant of FormatPct: the value is not scaled to a percentage *)
FormatPctUnscaled(x) == Text("%", x, x)

(* f"{x:.2%}": x times 100 with two decimals and a % sign, e.g. "21.00%" *)
FormatPct(x) == Text("%", x, Mul(x, Q(100, 1)))

(* f"{x:.2f}": x with two decimals, e.g. "0.00" *)
FormatF(x) == Text("f", x, x)

(* ------------------------ calculate_metrics ---------------------------- *)
(* trading periods per year, the annualisation constant *)
TradingDays == 252

NoValue == [k |-> "none"]

(* prices.iloc[-1] / prices.iloc[0] - 1 *)
TotalReturn(p) == FSub(FDiv(p[Len(p)], p[1]), One)

(* (1 + total_return) ** (252 / len(prices)) - 1 *)
AnnualReturn(p) == Sub(Pow(FAdd(One, TotalReturn(p)), Q(TradingDays, Len(p))), One)

(* returns.std() * np.sqrt(252) *)
AnnualVolatility(returns) == Mul(Std(returns), Sqrt(Q(TradingDays, 1)))

(* Mutant of Sharpe: the guard is annual_volatility != 0 *)
SharpeGuardNonZero(annual_return, rf, annual_volatility) ==
    IF FNe(annual_volatility, Zero)
    THEN Div(Sub(annual_return, rf), annual_volatility)
    ELSE Zero

(* (annual_return - risk_free) / annual_volatility if annual_volatility > 0 else 0 *)
Sharpe(annual_return, rf, annual_volatility) ==
    IF Positive(annual_volatility)
    THEN Div(Sub(annual_return, rf), annual_volatility)
    ELSE Zero

(* ((prices - cummax) / cummax).min() *)
MaxDrawdown(p) ==
    LET cummax == CumMax(p)
        drawdown == [i \in 1..Len(p) |-> FDiv(FSub(p[i], cummax[i]), cummax[i])]
    IN SeriesMin(drawdown)

(* annual_return / abs(max_drawdown) if max_drawdown != 0 else 0 *)
Calmar(annual_return, max_drawdown) ==
    IF FNe(max_drawdown, Zero) THEN Div(annual_return, FAbs(max_drawdown)) ELSE Zero

(* Mutant of WinRate: divides by the number of prices *)
WinRateOverPrices(returns) ==
    FDiv(Q(CountPositive(returns), 1), Q(Len(returns) + 1, 1))

(* (returns > 0).sum() / len(returns) *)
WinRate(returns) == FDiv(Q(CountPositive(returns), 1), Q(Len(returns), 1))

(* The local variables of calculate_metrics at its return statement *)
MetricsLocals(p, rf) ==
    LET returns == DropNa(PctChange(p))
        annual_return == AnnualReturn(p)
        annual_volatility == AnnualVolatility(returns)
        max_drawdown == MaxDrawdown(p)
    IN [returns |-> returns,
        total_return |-> TotalReturn(p),
        annual_return |-> annual_return,
        annual_volatility |-> annual_volatility,
        sharpe |-> Sharpe(annual_return, rf, annual_volatility),
        max_drawdown |-> max_drawdown,
        calmar |-> Calmar(annual_return, max_drawdown),
        win_rate |-> WinRate(returns)]

(* The returned dict; its keys in the source are                            *)
(* total_return: 累计收益率, annual_return: 年化收益率,                      *)
(* annual_volatility: 年化波动率, sharpe: 夏普比率, max_drawdown: 最大回撤,  *)
(* calmar: 卡玛比率, win_rate: 日胜率                                       *)
MetricsDict(l) ==
    [total_return |-> FormatPct(l.total_return),
     annual_return |-> FormatPct(l.annual_return),
     annual_volatility |-> FormatPct(l.annual_volatility),
     sharpe |-> FormatF(l.sharpe),
     max_drawdown |-> FormatPct(l.max_drawdown),
     calmar |-> FormatF(l.calmar),
     win_rate |-> FormatPct(l.win_rate)]

(* What a call raises: prices.iloc[-1] of an empty series is an IndexError; *)
(* nothing else in the function raises                                     *)
MetricsRaises(p) == IF Len(p) = 0 THEN "IndexError" ELSE "none"

(* calculate_metrics(prices, risk_free) on the series under analysis *)
CalculateMetrics ==
    /\ pc = "metrics"
    /\ raised' = MetricsRaises(prices)
    /\ IF MetricsRaises(prices) = "none"
       THEN /\ locals' = MetricsLocals(prices, risk_free)
            /\ metrics' = MetricsDict(locals')
            /\ pc' = "returned"
       ELSE /\ pc' = "raised"
            /\ UNCHANGED <<locals, metrics>>
    /\ UNCHANGED <<prices, risk_free, df, weights, portfolio>>
    /\ UNCHANGED rest

(* ----------------------- calculate_portfolio --------------------------- *)
(* The columns of df and the keys of weights, in insertion order *)
Funds == <<"A", "B">>

FundSet == {Funds[j] : j \in 1..Len(Funds)}

(* len(df.index): every column of a DataFrame has the length of its index *)
IndexLen(d) == Len(d[Funds[1]])

(* Mutant of PortfolioAfter: the weight is not applied *)
RECURSIVE PortfolioUnweighted(_, _, _)
PortfolioUnweighted(d, w, j) ==
    IF j = 0 THEN [i \in 1..IndexLen(d) |-> Zero]
    ELSE LET fund == Funds[j]
             before == PortfolioUnweighted(d, w, j - 1)
         IN [i \in 1..IndexLen(d) |-> FAdd(before[i], d[fund][i])]

(* portfolio after the first j turns of `portfolio += df[fund] * weight`,  *)
(* starting from pd.Series(0.0, index=df.index)                            *)
RECURSIVE PortfolioAfter(_, _, _)
PortfolioAfter(d, w, j) ==
    IF j = 0 THEN [i \in 1..IndexLen(d) |-> Zero]
    ELSE LET fund == Funds[j]
             before == PortfolioAfter(d, w, j - 1)
         IN [i \in 1..IndexLen(d) |-> FAdd(before[i], FMul(d[fund][i], w[fund]))]

(* Mutant of PortfolioSeries: the loop stops one fund early *)
PortfolioSkipsLast(d, w) == PortfolioAfter(d, w, Len(Funds) - 1)

(* the Series calculate_portfolio(df, weights) returns *)
PortfolioSeries(d, w) == PortfolioAfter(d, w, Len(Funds))

(* calculate_portfolio(df, weights): no check of the weights, nothing raised *)
CalculatePortfolio ==
    /\ pc = "portfolio"
    /\ portfolio' = PortfolioSeries(df, weights)
    /\ pc' = "analyse"
    /\ UNCHANGED <<prices, risk_free, raised, locals, metrics, df, weights>>
    /\ UNCHANGED rest

(* tab2, fund = the portfolio column: the series handed to calculate_metrics *)
AnalysePortfolio ==
    /\ pc = "analyse"
    /\ prices' = portfolio
    /\ pc' = "metrics"
    /\ UNCHANGED <<risk_free, raised, locals, metrics, df, weights, portfolio>>
    /\ UNCHANGED rest

(* --------------------- calls, one after another ------------------------ *)
(* The Series passed as `prices` once calculate_metrics is over:           *)
(* pct_change, dropna, cummax and the arithmetic all build new objects     *)
PricesAfterMetrics(p, rf) == p

(* Mutant of DfAfterPortfolio: the sum is accumulated in the first column  *)
(* of df itself (portfolio = df[fund] instead of a fresh Series)           *)
DfAccumulatedInPlace(d, w) == [d EXCEPT ![Funds[1]] = PortfolioSeries(d, w)]

(* df once calculate_portfolio is over: the function reads df[fund] and    *)
(* applies += to its own Series only                                       *)
DfAfterPortfolio(d, w) == d

(* weights once calculate_portfolio is over: only weights.items() is read *)
WeightsAfterPortfolio(d, w) == w

(* the dict calculate_metrics returns, or the exception it raises *)
MetricsResult(p, rf) ==
    IF MetricsRaises(p) = "none"
    THEN MetricsDict(MetricsLocals(p, rf))
    ELSE [k |-> "raise", error |-> MetricsRaises(p)]

(* tab2: metrics = calculate_metrics(df[fund], risk_free_rate), at any     *)
(* time and any number of times                                            *)
RepeatMetrics(fund) ==
    /\ pc = "calls"
    /\ UNCHANGED <<risk_free, pc, weights, portfolio>>
    /\ df' = [df EXCEPT ![fund] = PricesAfterMetrics(df[fund], risk_free)]
    /\ prices' = df'[fund]
    /\ raised' = MetricsRaises(df[fund])
    /\ locals' = (IF MetricsRaises(df[fund]) = "none"
                  THEN MetricsLocals(df[fund], risk_free) ELSE locals)
    /\ metrics' = (IF MetricsRaises(df[fund]) = "none"
                   THEN MetricsDict(locals') ELSE metrics)
    /\ seen' = seen \cup {[fn |-> "calculate_metrics", arg |-> fund,
                            before |-> [prices |-> df[fund], risk_free |-> risk_free],
                            after |-> [prices |-> df'[fund], risk_free |-> risk_free'],
                            result |-> [metrics |-> MetricsResult(df[fund], risk_free)]]}
    /\ UNCHANGED <<selected_funds, loop_i, remaining, requirements, sessions>>

(* tab1: calculate_portfolio(df, weights), at any time and any number of   *)
(* times                                                                   *)
RepeatPortfolio ==
    /\ pc = "calls"
    /\ portfolio' = PortfolioSeries(df, weights)
    /\ df' = DfAfterPortfolio(df, weights)
    /\ weights' = WeightsAfterPortfolio(df, weights)
    /\ seen' = seen \cup {[fn |-> "calculate_portfolio", arg |-> "df",
                            before |-> [df |-> df, weights |-> weights],
                            after |-> [df |-> df', weights |-> weights'],
                            result |-> [portfolio |-> portfolio']]}
    /\ UNCHANGED <<prices, risk_free, pc, raised, locals, metrics>>
    /\ UNCHANGED <<selected_funds, loop_i, remaining, requirements, sessions>>

(* ------------------- sidebar: weight configuration --------------------- *)
(* list(fund_pool.keys()): the seven funds on offer, by position *)
FundPool == <<"F1", "F2", "F3", "F4", "F5", "F6", "F7">>

(* remaining = 100 *)
FullPercent == 100

(* Mutant of SliderRange: every slider runs from 0 to 100 *)
SliderRangeFull(rem) == 0..FullPercent

(* st.sidebar.slider(label, 0, remaining, default): the values a user can  *)
(* set it to                                                               *)
SliderRange(rem) == 0..rem

(* weights[fund] = value *)
WithWeight(w, fund, value) ==
    [f \in (DOMAIN w) \cup {fund} |-> IF f = fund THEN value ELSE w[f]]

(* if not selected_funds: st.warning(...); st.stop() *)
StopWithoutFunds ==
    /\ pc = "sidebar"
    /\ selected_funds = <<>>
    /\ pc' = "stopped"
    /\ UNCHANGED <<prices, risk_free, raised, locals, metrics, df, weights, portfolio>>
    /\ UNCHANGED <<seen, selected_funds, loop_i, remaining, requirements, sessions>>

(* weights = {}; remaining = 100; the loop starts at i = 0 *)
StartWeights ==
    /\ pc = "sidebar"
    /\ selected_funds # <<>>
    /\ weights' = <<>>
    /\ remaining' = FullPercent
    /\ loop_i' = 0
    /\ pc' = "loop"
    /\ UNCHANGED <<prices, risk_free, raised, locals, metrics, df, portfolio>>
    /\ UNCHANGED <<seen, selected_funds, requirements, sessions>>

(* one turn of the loop for a fund that is not the last: the slider's      *)
(* value w goes to the fund and is taken from remaining                    *)
SliderTurn ==
    /\ pc = "loop"
    /\ loop_i < Len(selected_funds) - 1
    /\ \E w \in SliderRange(remaining) :
          /\ weights' = WithWeight(weights, selected_funds[loop_i + 1], w)
          /\ remaining' = remaining - w
    /\ loop_i' = loop_i + 1
    /\ UNCHANGED <<prices, risk_free, pc, raised, locals, metrics, df, portfolio>>
    /\ UNCHANGED <<seen, selected_funds, requirements, sessions>>

(* the turn of the last fund: it gets what remains *)
LastTurn ==
    /\ pc = "loop"
    /\ loop_i = Len(selected_funds) - 1
    /\ weights' = WithWeight(weights, selected_funds[loop_i + 1], remaining)
    /\ loop_i' = loop_i + 1
    /\ UNCHANGED <<prices, risk_free, pc, raised, locals, metrics, df, portfolio>>
    /\ UNCHANGED <<seen, selected_funds, remaining, requirements, sessions>>

(* weights = {k: v/100 for k, v in weights.items()} *)
ScaleWeights ==
    /\ pc = "loop"
    /\ loop_i = Len(selected_funds)
    /\ weights' = [f \in DOMAIN weights |-> Q(weights[f], FullPercent)]
    /\ pc' = "configured"
    /\ UNCHANGED <<prices, risk_free, raised, locals, metrics, df, portfolio>>
    /\ UNCHANGED <<seen, selected_funds, loop_i, remaining, requirements, sessions>>

(* ------------------ requirement tracker (src/app.py) ------------------- *)
(* The status column holds "pending" for 待处理 (the column default),       *)
(* "in_progress" for 处理中 and "completed" for 已完成.  A DATETIME column  *)
(* is "NULL" or "set": the text of datetime.now() is not modelled.         *)
(* requirements is the table, a row's id its position.  Streamlit runs     *)
(* each session's script in a thread of its own, and every database        *)
(* function opens a connection of its own, so a SELECT and a later UPDATE  *)
(* of one script run are separate steps.                                   *)
SessionIds == 1..MaxSessions

(* INSERT INTO requirements (...): status defaults to 待处理, the other     *)
(* columns modelled here to NULL                                           *)
NewRequirement ==
    [status |-> "pending", result_note |-> "NULL",
     updated_at |-> "NULL", completed_at |-> "NULL"]

(* the row after update_requirement_status(req_id, status, result_note):   *)
(* for 已完成 it sets status, result_note, updated_at and completed_at;     *)
(* for any other status it sets status and updated_at only                 *)
UpdateRequirementStatus(row, status) ==
    IF status = "completed"
    THEN [row EXCEPT !.status = status, !.result_note = "set",
                     !.updated_at = "set", !.completed_at = "set"]
    ELSE [row EXCEPT !.status = status, !.updated_at = "set"]

(* SELECT r.* FROM requirements: the statuses a script run works with *)
Snapshot == [id \in 1..Len(requirements) |-> requirements[id].status]

NoClick == [button |-> "none", id |-> 0]

(* untouched by the tracker: the state of the fund analysis script *)
FundScriptUnchanged ==
    UNCHANGED <<prices, risk_free, pc, raised, locals, metrics, df, weights,
                portfolio, seen, selected_funds, loop_i, remaining>>

(* sales_page: create_requirement(...) *)
CreateRequirement ==
    /\ pc = "tracker"
    /\ Len(requirements) < MaxRequirements
    /\ requirements' = Append(requirements, NewRequirement)
    /\ UNCHANGED sessions
    /\ FundScriptUnchanged

(* A script run of researcher_page with no button pressed: it reads the    *)
(* requirements and shows them                                             *)
LoadPage(s) ==
    /\ pc = "tracker"
    /\ sessions[s].pc \in {"new", "page"}
    /\ sessions' = [sessions EXCEPT ![s] = [pc |-> "page", view |-> Snapshot, click |-> NoClick]]
    /\ UNCHANGED requirements
    /\ FundScriptUnchanged

(* The user presses 开始处理, shown for a requirement the page read as 待处理 *)
ClickStart(s, id) ==
    /\ pc = "tracker"
    /\ sessions[s].pc = "page"
    /\ id \in 1..Len(sessions[s].view)
    /\ sessions[s].view[id] = "pending"
    /\ sessions' = [sessions EXCEPT ![s].pc = "clicked",
                                    ![s].click = [button |-> "start", id |-> id]]
    /\ UNCHANGED requirements
    /\ FundScriptUnchanged

(* The user submits 标记完成, shown for a requirement the page read as       *)
(* 待处理 or 处理中                                                          *)
ClickComplete(s, id) ==
    /\ pc = "tracker"
    /\ sessions[s].pc = "page"
    /\ id \in 1..Len(sessions[s].view)
    /\ sessions[s].view[id] \in {"pending", "in_progress"}
    /\ sessions' = [sessions EXCEPT ![s].pc = "clicked",
                                    ![s].click = [button |-> "complete", id |-> id]]
    /\ UNCHANGED requirements
    /\ FundScriptUnchanged

(* The rerun a press starts: reqs = get_requirements_by_researcher(...) *)
RerunSelect(s) ==
    /\ pc = "tracker"
    /\ sessions[s].pc = "clicked"
    /\ sessions' = [sessions EXCEPT ![s].pc = "run", ![s].view = Snapshot]
    /\ UNCHANGED requirements
    /\ FundScriptUnchanged

(* The rerun reaches the requirement's widgets.  A button is drawn, and    *)
(* reports its press, only under the status the run has read; then         *)
(* update_requirement_status(...) and st.rerun().  A press whose button is *)
(* not drawn is dropped and the page is shown.                             *)
RerunWidgets(s) ==
    /\ pc = "tracker"
    /\ sessions[s].pc = "run"
    /\ LET click == sessions[s].click
           read == sessions[s].view[click.id]
       IN IF click.button = "start" /\ read = "pending"
          THEN /\ requirements' = [requirements EXCEPT
                     ![click.id] = UpdateRequirementStatus(requirements[click.id], "in_progress")]
               /\ sessions' = [sessions EXCEPT ![s].pc = "new", ![s].click = NoClick]
          ELSE IF click.button = "complete" /\ read \in {"pending", "in_progress"}
          THEN /\ requirements' = [requirements EXCEPT
                     ![click.id] = UpdateRequirementStatus(requirements[click.id], "completed")]
               /\ sessions' = [sessions EXCEPT ![s].pc = "new", ![s].click = NoClick]
          ELSE /\ UNCHANGED requirements
               /\ sessions' = [sessions EXCEPT ![s].pc = "page", ![s].click = NoClick]
    /\ FundScriptUnchanged

(* ------------------------ specifications ------------------------------- *)
(* the parts of the state a specification does not use *)
NoCalls == seen = {}

NoWeightLoop == selected_funds = <<>> /\ loop_i = 0 /\ remaining = 0

NoTracker == requirements = NoValue /\ sessions = NoValue

Price(h) == Q(h, 100)

ToSeries(hs) == [i \in 1..Len(hs) |-> Price(hs[i])]

SeriesOfLen(n) == {ToSeries(hs) : hs \in [1..n -> PriceValues]}

(* A call of calculate_metrics on any series of up to MaxLen prices *)
Init ==
    /\ prices \in UNION {SeriesOfLen(n) : n \in 0..MaxLen}
                    \cup {ToSeries(hs) : hs \in ExampleSeries}
    /\ risk_free \in {Q(r, 1000) : r \in RiskFreeValues}
    /\ pc = "metrics"
    /\ raised = "none"
    /\ locals = NoValue
    /\ metrics = NoValue
    /\ df = NoValue
    /\ weights = NoValue
    /\ portfolio = NoValue
    /\ NoCalls /\ NoWeightLoop /\ NoTracker

Next == CalculateMetrics

Spec == Init /\ [][Next]_vars

(* A call of calculate_portfolio on any table of up to MaxDays rows and any *)
(* weights, its result then analysed by calculate_metrics                  *)
InitPortfolio ==
    /\ \E n \in 1..MaxDays :
          df \in [FundSet -> {ToSeries(hs) : hs \in [1..n -> FundPriceValues]}]
    /\ weights \in [FundSet -> {Q(w, 100) : w \in WeightValues}]
    /\ risk_free \in {Q(r, 1000) : r \in RiskFreeValues}
    /\ pc = "portfolio"
    /\ prices = NoValue
    /\ raised = "none"
    /\ locals = NoValue
    /\ metrics = NoValue
    /\ portfolio = NoValue
    /\ NoCalls /\ NoWeightLoop /\ NoTracker

NextPortfolio == CalculatePortfolio \/ AnalysePortfolio \/ CalculateMetrics

SpecPortfolio == InitPortfolio /\ [][NextPortfolio]_vars

(* Weights of the funds in a sequence of calls, in hundredths *)
CallWeightValues == {25, 75}

(* Any sequence of calls of calculate_metrics (on either column) and of    *)
(* calculate_portfolio on one table, one set of weights and one rate      *)
InitCalls ==
    /\ \E n \in 1..MaxDays :
          df \in [FundSet -> {ToSeries(hs) : hs \in [1..n -> FundPriceValues]}]
    /\ weights \in [FundSet -> {Q(w, 100) : w \in CallWeightValues}]
    /\ risk_free \in {Q(r, 1000) : r \in RiskFreeValues}
    /\ pc = "calls"
    /\ prices = NoValue
    /\ raised = "none"
    /\ locals = NoValue
    /\ metrics = NoValue
    /\ portfolio = NoValue
    /\ NoCalls /\ NoWeightLoop /\ NoTracker

NextCalls == RepeatPortfolio \/ \E fund \in FundSet : RepeatMetrics(fund)

SpecCalls == InitCalls /\ [][NextCalls]_vars

(* The sidebar's weight configuration for any selection of up to MaxFunds  *)
(* funds and any slider values                                            *)
InitWeights ==
    /\ selected_funds \in {SubSeq(FundPool, 1, n) : n \in 0..MaxFunds}
    /\ pc = "sidebar"
    /\ loop_i = 0
    /\ remaining = 0
    /\ weights = NoValue
    /\ prices = NoValue
    /\ risk_free = NoValue
    /\ raised = "none"
    /\ locals = NoValue
    /\ metrics = NoValue
    /\ df = NoValue
    /\ portfolio = NoValue
    /\ NoCalls /\ NoTracker

NextWeights == StopWithoutFunds \/ StartWeights \/ SliderTurn \/ LastTurn \/ ScaleWeights

SpecWeights == InitWeights /\ [][NextWeights]_vars

(* The researcher page open in MaxSessions sessions on one table *)
InitTracker ==
    /\ requirements = <<>>
    /\ sessions = [s \in SessionIds |-> [pc |-> "new", view |-> <<>>, click |-> NoClick]]
    /\ pc = "tracker"
    /\ prices = NoValue
    /\ risk_free = NoValue
    /\ raised = "none"
    /\ locals = NoValue
    /\ metrics = NoValue
    /\ df = NoValue
    /\ weights = NoValue
    /\ portfolio = NoValue
    /\ NoCalls /\ NoWeightLoop

NextTracker ==
    \/ CreateRequirement
    \/ \E s \in SessionIds : LoadPage(s) \/ RerunSelect(s) \/ RerunWidgets(s)
    \/ \E s \in SessionIds : \E id \in 1..MaxRequirements :
          ClickStart(s, id) \/ ClickComplete(s, id)

SpecTracker == InitTracker /\ [][NextTracker]_vars

(* ============================== claims ================================= *)
(* A price series the specification calls valid: N >= 2, every price > 0 *)
ValidSeries(p) == Len(p) >= 2 /\ \A i \in 1..Len(p) : FGt(p[i], Zero)

(* calculate_metrics was called and is over, by a return or by an exception *)
MetricsOver == pc \in {"returned", "raised"}

Returned == pc = "returned"

(* C1 (as claimed): whenever the series has fewer than 2 prices or holds a *)
(* price <= 0, calculate_metrics fails with an error and returns no result *)
C1_InvalidSeriesRejected ==
    (MetricsOver /\ ~ValidSeries(prices)) => (raised # "none" /\ metrics = NoValue)

(* calculate_portfolio was called and has returned or raised *)
PortfolioOver == pc # "portfolio"

WeightSum(w) == Sum([j \in 1..Len(Funds) |-> w[Funds[j]]])

(* C2 (as claimed): whenever the weights do not sum to 1.0,                *)
(* calculate_portfolio fails with an error and produces no series          *)
C2_BadWeightsRejected ==
    (PortfolioOver /\ WeightSum(weights) # One)
        => (raised # "none" /\ portfolio = NoValue)

(* ---- C3 ---- *)
(* the ratios the claim's formulas give, from the function's own figures *)
SharpeFormula == Div(Sub(locals.annual_return, risk_free), locals.annual_volatility)

CalmarFormula == Div(locals.annual_return, FAbs(locals.max_drawdown))

(* C3 (as claimed): on a valid series Sharpe is 0 when the annualized      *)
(* volatility is 0 and (annual_return - risk_free) / volatility otherwise; *)
(* Calmar is 0 when max drawdown is 0 and annual_return / abs(max          *)
(* drawdown) otherwise                                                     *)
C3_RatiosAsClaimed ==
    (Returned /\ ValidSeries(prices)) =>
        /\ locals.sharpe = (IF locals.annual_volatility = Zero THEN Zero ELSE SharpeFormula)
        /\ locals.calmar = (IF locals.max_drawdown = Zero THEN Zero ELSE CalmarFormula)

(* C3 (amended): on a valid series calculate_metrics returns, and Sharpe   *)
(* is 0 when the annualized volatility is 0 or NaN; the volatility is NaN  *)
(* exactly when N = 2 (one return has no sample deviation); otherwise      *)
(* Sharpe = (annual_return - risk_free) / volatility.  Calmar is 0 when    *)
(* max drawdown is 0 and annual_return / abs(max drawdown) otherwise.  The *)
(* dict holds both ratios as two-decimal texts.                            *)
C3_DegenerateRatios ==
    (MetricsOver /\ ValidSeries(prices)) =>
        /\ Returned
        /\ IsNaN(locals.annual_volatility) <=> Len(prices) = 2
        /\ locals.sharpe =
             (IF locals.annual_volatility = Zero \/ IsNaN(locals.annual_volatility)
              THEN Zero ELSE SharpeFormula)
        /\ locals.calmar = (IF locals.max_drawdown = Zero THEN Zero ELSE CalmarFormula)
        /\ metrics.sharpe = FormatF(locals.sharpe)
        /\ metrics.calmar = FormatF(locals.calmar)

(* a flat series of 3 prices: volatility 0 and drawdown 0, both ratios 0 *)
C3_Witness ==
    /\ Returned /\ ValidSeries(prices) /\ Len(prices) = 3
    /\ locals.annual_volatility = Zero /\ locals.sharpe = Zero
    /\ locals.max_drawdown = Zero /\ locals.calmar = Zero
    /\ risk_free # Zero

(* ---- C4 ---- *)
(* M[i]: the maximum of p[1..i] *)
RunningMax(p, i) ==
    CHOOSE m \in {p[j] : j \in 1..i} : \A j \in 1..i : ~FGt(p[j], m)

DrawdownAt(p, i) == FDiv(FSub(p[i], RunningMax(p, i)), RunningMax(p, i))

(* the minimum over i of (p[i] - M[i]) / M[i] *)
MinDrawdown(p) ==
    CHOOSE x \in {DrawdownAt(p, i) : i \in 1..Len(p)} :
        \A i \in 1..Len(p) : ~FLt(DrawdownAt(p, i), x)

(* C4: on a valid series the max drawdown computed is the minimum over i   *)
(* of (p[i] - M[i]) / M[i] with M[i] the maximum of p[0..i], it is <= 0,   *)
(* the dict holds it as a percent text, and for [1.0, 1.2, 0.9] it is      *)
(* -0.25, shown as -25.00%                                                 *)
C4_MaxDrawdown ==
    (Returned /\ ValidSeries(prices)) =>
        /\ locals.max_drawdown = MinDrawdown(prices)
        /\ ~FGt(locals.max_drawdown, Zero) /\ IsFinite(locals.max_drawdown)
        /\ metrics.max_drawdown = FormatPct(MinDrawdown(prices))
        /\ prices = ToSeries(<<100, 120, 90>>) =>
             /\ locals.max_drawdown = Q(-1, 4)
             /\ metrics.max_drawdown =
                  [k |-> "str", style |-> "%", neg |-> TRUE, shown |-> Q(25, 1)]

C4_Witness ==
    /\ Returned /\ prices = ToSeries(<<100, 120, 90>>)
    /\ locals.max_drawdown = Q(-1, 4)

(* ---- C5 ---- *)
StrictlyIncreasing(p) == \A i \in 2..Len(p) : FGt(p[i], p[i - 1])

(* C5: on a strictly increasing valid series max drawdown is 0, win rate   *)
(* is 1.0 and Calmar is 0                                                  *)
C5_StrictlyIncreasing ==
    (Returned /\ ValidSeries(prices) /\ StrictlyIncreasing(prices)) =>
        /\ locals.max_drawdown = Zero
        /\ locals.win_rate = One
        /\ locals.calmar = Zero
        /\ metrics.max_drawdown = FormatPct(Zero)
        /\ metrics.win_rate = FormatPct(One)
        /\ metrics.calmar = FormatF(Zero)

C5_Witness ==
    /\ Returned /\ prices = ToSeries(<<90, 100, 120>>)
    /\ locals.win_rate = One /\ locals.max_drawdown = Zero
    /\ locals.annual_return # Zero /\ locals.calmar = Zero

(* ---- C6 ---- *)
Flat(p) == \A i \in 1..Len(p) : p[i] = p[1]

FlatExceptVolatility ==
    /\ locals.annual_return = Zero
    /\ locals.sharpe = Zero
    /\ locals.max_drawdown = Zero
    /\ locals.calmar = Zero
    /\ locals.win_rate = Zero

(* C6 (as claimed): on a flat valid series annualized return, volatility,  *)
(* Sharpe, max drawdown, Calmar and win rate are all 0                     *)
C6_FlatAllZero ==
    (Returned /\ ValidSeries(prices) /\ Flat(prices)) =>
        (FlatExceptVolatility /\ locals.annual_volatility = Zero)

(* C6 (amended): on a flat valid series annualized return, Sharpe, max     *)
(* drawdown, Calmar and win rate are 0 for every risk-free rate; the       *)
(* volatility is 0 when N >= 3 and NaN when N = 2                          *)
C6_Flat ==
    (Returned /\ ValidSeries(prices) /\ Flat(prices)) =>
        /\ FlatExceptVolatility
        /\ locals.annual_volatility = (IF Len(prices) = 2 THEN NaN ELSE Zero)
        /\ metrics.annual_volatility = FormatPct(locals.annual_volatility)
        /\ metrics.annual_return = FormatPct(Zero)
        /\ metrics.sharpe = FormatF(Zero)

C6_Witness ==
    /\ Returned /\ ValidSeries(prices) /\ Flat(prices) /\ Len(prices) = 4
    /\ risk_free # Zero
    /\ locals.annual_volatility = Zero /\ locals.win_rate = Zero

(* ---- C7 ---- *)
Rises(p) == {i \in 2..Len(p) : FGt(p[i], p[i - 1])}

(* C7: on a valid series the win rate is the number of i in 1..N-1 with    *)
(* prices[i] > prices[i-1], divided by N-1; the dict holds it as a percent *)
(* text                                                                    *)
C7_WinRate ==
    (Returned /\ ValidSeries(prices)) =>
        /\ locals.win_rate = Q(Cardinality(Rises(prices)), Len(prices) - 1)
        /\ metrics.win_rate = FormatPct(Q(Cardinality(Rises(prices)), Len(prices) - 1))

(* a rise, a period of zero return and a fall: one win in three periods *)
C7_Witness ==
    /\ Returned /\ prices = ToSeries(<<100, 120, 120, 90>>)
    /\ locals.win_rate = Q(1, 3)

MetricNames ==
    {"total_return", "annual_return", "annual_volatility", "sharpe",
     "max_drawdown", "calmar", "win_rate"}

Half == Q(1, 2)

(* C9: with two identical constituent series of length N and weights       *)
(* {A: 0.5, B: 0.5} the portfolio series has length N and equals the       *)
(* input series element for element                                        *)
C9_IdenticalConstituents ==
    (PortfolioOver /\ df["A"] = df["B"] /\ weights = [f \in FundSet |-> Half]) =>
        /\ Len(portfolio) = IndexLen(df)
        /\ \A i \in 1..IndexLen(df) : portfolio[i] = df["A"][i]

C9_Witness ==
    /\ PortfolioOver /\ weights = [f \in FundSet |-> Half]
    /\ df["A"] = ToSeries(<<100, 200, 100>>) /\ df["B"] = df["A"]
    /\ portfolio = df["A"]

(* ---- C10 ---- *)
ValidWeights(w) ==
    /\ \A f \in FundSet : ~FLt(w[f], Zero)
    /\ WeightSum(w) = One

ValidTable(d) == \A f \in FundSet : ValidSeries(d[f])

(* the sum over the funds f of weight[f] * price_f[i] *)
WeightedSumAt(d, w, i) ==
    Sum([j \in 1..Len(Funds) |-> FMul(w[Funds[j]], d[Funds[j]][i])])

(* C10: for constituent series of equal length N >= 2 with prices > 0 and  *)
(* non-negative weights summing to 1.0, portfolio[i] is the sum over the   *)
(* funds of weight * price, the series has length N and every element is   *)
(* > 0, so it is a valid price series; handed to calculate_metrics it is   *)
(* the series analysed and the call returns a result                       *)
C10_PortfolioIsPriceSeries ==
    (PortfolioOver /\ ValidTable(df) /\ ValidWeights(weights)) =>
        /\ Len(portfolio) = IndexLen(df)
        /\ \A i \in 1..IndexLen(df) :
             /\ portfolio[i] = WeightedSumAt(df, weights, i)
             /\ FGt(portfolio[i], Zero)
        /\ ValidSeries(portfolio)
        /\ pc \in {"metrics", "returned", "raised"} => prices = portfolio
        /\ MetricsOver => (Returned /\ raised = "none" /\ metrics # NoValue)

(* uneven weights over two different series, analysed by calculate_metrics *)
C10_Witness ==
    /\ Returned /\ ValidTable(df)
    /\ weights = [A |-> Q(1, 4), B |-> Q(3, 4)]
    /\ df["A"] = ToSeries(<<100, 200, 100>>) /\ df["B"] = ToSeries(<<200, 200, 100>>)
    /\ portfolio = <<Q(7, 4), Q(2, 1), Q(1, 1)>>
    /\ prices = portfolio /\ metrics # NoValue

(* ---- C11 ---- *)
(* C11: calculate_metrics and calculate_portfolio are pure: every call     *)
(* leaves the series, the rate, the table and the weights it was given as  *)
(* they were, and two calls of the same function on the same argument      *)
(* return the same result whatever calls ran in between                    *)
C11_Pure ==
    /\ \A c \in seen : c.after = c.before
    /\ \A c \in seen : \A e \in seen :
         (c.fn = e.fn /\ c.arg = e.arg) => (c.result = e.result /\ c.before = e.before)

(* both functions were called, calculate_metrics on both columns and       *)
(* again after calculate_portfolio                                         *)
C11_Witness ==
    /\ Cardinality(seen) = 3
    /\ \E c \in seen : c.fn = "calculate_portfolio"
    /\ metrics # NoValue
    /\ df["A"] # df["B"] /\ portfolio # df["A"]
    /\ prices = df["A"]

(* ---- C12 ---- *)
SelectedSet == {selected_funds[j] : j \in 1..Len(selected_funds)}

RECURSIVE PercentSum(_, _)
PercentSum(w, j) ==
    IF j = 0 THEN 0 ELSE PercentSum(w, j - 1) + w[selected_funds[j]]

LastFund == selected_funds[Len(selected_funds)]

(* C12: in the weight loop, for any non-empty selection and any slider     *)
(* values within 0..remaining, every weight is >= 0, remaining never drops *)
(* below 0 and the weights given so far plus remaining make 100; once the  *)
(* loop is over every selected fund has a weight, the last fund has the    *)
(* remainder, and after the division by 100 the weights are >= 0 and sum   *)
(* to 1.0                                                                  *)
C12_WeightsSumToOne ==
    /\ pc = "loop" =>
         /\ remaining >= 0
         /\ DOMAIN weights = {selected_funds[j] : j \in 1..loop_i}
         /\ \A f \in DOMAIN weights : weights[f] >= 0
         /\ loop_i < Len(selected_funds) =>
              PercentSum(weights, loop_i) + remaining = FullPercent
         /\ loop_i = Len(selected_funds) =>
              /\ weights[LastFund] = remaining
              /\ PercentSum(weights, loop_i) = FullPercent
    /\ pc = "configured" =>
         /\ selected_funds # <<>>
         /\ DOMAIN weights = SelectedSet
         /\ \A f \in SelectedSet : ~FLt(weights[f], Zero)
         /\ Sum([j \in 1..Len(selected_funds) |-> weights[selected_funds[j]]]) = One
         /\ weights[LastFund] = Q(remaining, FullPercent)

(* three funds at 33, 33 and the remainder 34 *)
C12_Witness ==
    /\ pc = "configured" /\ Len(selected_funds) = 3
    /\ weights = [F1 |-> Q(33, 100), F2 |-> Q(33, 100), F3 |-> Q(34, 100)]
    /\ remaining = 34

(* ---- C13 ---- *)
StatusRank(status) ==
    IF status = "pending" THEN 0 ELSE IF status = "in_progress" THEN 1 ELSE 2

(* C13 (as claimed): under any interleaving of the sessions' actions the   *)
(* status of a requirement only moves forward along 待处理 -> 处理中 ->      *)
(* 已完成, once it is 已完成 it never changes again, and completed_at is    *)
(* set exactly when the status is 已完成                                    *)
C13_StatusOnlyForward ==
    [][\A id \in 1..Len(requirements) :
          /\ StatusRank(requirements'[id].status) >= StatusRank(requirements[id].status)
          /\ requirements[id].status = "completed" => requirements'[id].status = "completed"
          /\ requirements'[id].completed_at = "set" <=> requirements'[id].status = "completed"
      ]_vars

====
